---- MODULE Spec2Model ----
(***************************************************************************)
(* A model of smartinspect/protocol.py: the byte-accounted backlog         *)
(* PacketQueue and the TcpProtocol that sends packets, buffers them while  *)
(* disconnected, reconnects in background threads and flushes the backlog. *)
(*                                                                         *)
(* Two specifications share the variables:                                 *)
(*   SpecQ  a single PacketQueue driven by a sequence of its public        *)
(*          operations (push, pop, clear, get_all, backlog setter);        *)
(*   Spec   a TcpProtocol with producer threads calling write_packet, the  *)
(*          background connect threads, and an application thread calling  *)
(*          connect() and disconnect(), interleaved at the points where    *)
(*          the code reads or writes shared state.                         *)
(***************************************************************************)
EXTENDS Integers, Sequences, FiniteSets, TLC

VARIABLES
    queue,      \* PacketQueue: items (head first), _size, _count, _backlog, on_packet_dropped
    pushed,     \* history: every packet handed to PacketQueue.push, in call order (SpecQ)
    out,        \* history: every packet taken from the head by pop/get_all/clear (SpecQ)
    last,       \* the last PacketQueue operation and what it returned (SpecQ)
    drop_log,   \* the arguments of the on_packet_dropped calls, in call order
    cfg,        \* TcpProtocol settings: reconnect, backlog_enabled, _keep_open
    connected,  \* TcpProtocol._connected
    failed,     \* TcpProtocol._failed
    socket,     \* TcpProtocol._socket: 0 is None, n > 0 the socket made by thread n
    connect_in_progress,    \* TcpProtocol._connect_in_progress
    last_reconnect_time,    \* TcpProtocol._last_reconnect_time
    lock,       \* TcpProtocol._lock: the thread holding it, or NoThread
    now,        \* time.time()
    pc,         \* where each thread is in the code
    pkt,        \* per producer: the packet argument of its write_packet call
    cur,        \* per producer: current_time of _try_reconnect
    flush,      \* per background thread: packets of _flush_queue and the loop position
    wire,       \* the acknowledged sends, in order: socket, writing thread,
                \* packet id
    cb,         \* the callbacks the last step called, in call order
    written,    \* per producer: write_packet calls made so far
    nspawn,     \* background threads started so far
    napp,       \* connect() and disconnect() calls made so far
    lim,        \* the limits of this run: calls and threads started
    arg,        \* the argument of a call of a pure function (SpecConfig, SpecFormat)
    ret,        \* what that call returned or raised
    hist        \* history: the packets evicted with a report, those cleared by
                \* disconnect(), and whether disconnect() returned with no call since

qvars == <<queue, pushed, out, last, drop_log>>

tvars == <<cfg, connected, failed, socket, connect_in_progress, last_reconnect_time,
           lock, now, pc, pkt, cur, flush, wire, cb, written, nspawn, napp, lim,
           arg, ret, hist>>

vars == <<queue, pushed, out, last, drop_log,
          cfg, connected, failed, socket, connect_in_progress, last_reconnect_time,
          lock, now, pc, pkt, cur, flush, wire, cb, written, nspawn, napp, lim,
          arg, ret, hist>>

-----------------------------------------------------------------------------
(* Bounds of the model *)

MaxPush == 4        \* pushes in one run of SpecQ
NProducers == 2     \* threads calling write_packet
MaxWrites == 3      \* write_packet calls in one run of Spec
MaxSpawn == 1       \* background connect threads started in one run of Spec
MaxConnects == 1    \* connect() calls in one run of Spec
MaxDisconnects == 1 \* disconnect() calls in one run of Spec
MaxWritesR == 2     \* write_packet calls in one run of SpecReconnect
MaxSpawnR == 2      \* background connect threads started in one run of SpecReconnect
MaxConnectsR == 1   \* connect() calls in one run of SpecReconnect
MaxTicksR == 1      \* clock ticks in one run of SpecReconnect
MaxWritesD == 2     \* write_packet calls in one run of SpecDisconnect

-----------------------------------------------------------------------------
(* Packets.  A packet is a Python dict; the model keeps what the code reads *)
(* of it: whether the dict is empty, its packet_type, the UTF-8 length of   *)
(* its text fields and the length of its data.  id is the identity of the   *)
(* dict object (not part of its value): two packets with equal fields are   *)
(* equal for Python's == and list.index, and still two objects.             *)

OVERHEAD == 24
BaseSize == 64
DefaultBacklog == 2097152

None == [id |-> 0, ptype |-> "None", text |-> 0, data |-> 0]

EmptyDict == [ptype |-> "empty", text |-> 0, data |-> 0]
SmallEntry == [ptype |-> "LOG_ENTRY", text |-> 5, data |-> 0]
BigEntry == [ptype |-> "LOG_ENTRY", text |-> 5, data |-> 500]

QueuePacketVals == {EmptyDict, SmallEntry, BigEntry}

BacklogValues == {-1, 0, 100, 700}

MkPacket(i, v) == [id |-> i, ptype |-> v.ptype, text |-> v.text, data |-> v.data]

\* Python's == on two packet dicts: field values, never identity
PyEq(a, b) == a.ptype = b.ptype /\ a.text = b.text /\ a.data = b.data

Ids(s) == [i \in 1..Len(s) |-> s[i].id]

RECURSIVE SumSeq(_)
SumSeq(s) == IF s = <<>> THEN 0 ELSE Head(s) + SumSeq(Tail(s))

-----------------------------------------------------------------------------
(* PacketQueue *)

get_packet_size(packet) ==
    IF packet.ptype = "empty" THEN 0
    ELSE BaseSize + packet.text + packet.data

\* mutant: the per-entry overhead is forgotten when an entry leaves
pop_unsafe_no_overhead(q) ==
    IF q.items = <<>> THEN [q |-> q, ret |-> None]
    ELSE [q |-> [q EXCEPT !.items = Tail(@),
                          !.count = @ - 1,
                          !.size = @ - get_packet_size(Head(q.items))],
          ret |-> Head(q.items)]

\* mutant: the entry is unlinked at the tail instead of the head
pop_unsafe_newest(q) ==
    IF q.items = <<>> THEN [q |-> q, ret |-> None]
    ELSE LET n == Len(q.items) IN
         [q |-> [q EXCEPT !.items = SubSeq(@, 1, n - 1),
                          !.count = @ - 1,
                          !.size = @ - (get_packet_size(q.items[n]) + OVERHEAD)],
          ret |-> q.items[n]]

pop_unsafe(q) ==
    IF q.items = <<>> THEN [q |-> q, ret |-> None]
    ELSE [q |-> [q EXCEPT !.items = Tail(@),
                          !.count = @ - 1,
                          !.size = @ - (get_packet_size(Head(q.items)) + OVERHEAD)],
          ret |-> Head(q.items)]

RECURSIVE resize_loop(_, _)
resize_loop(q, dropped_count) ==
    IF q.backlog < q.size
    THEN LET r == pop_unsafe(q) IN
         IF r.ret = None
         THEN [q |-> [r.q EXCEPT !.size = 0], dropped |-> dropped_count]
         ELSE resize_loop(r.q, dropped_count + 1)
    ELSE [q |-> q, dropped |-> dropped_count]

\* mutant: trimming never drops the newest entry
resize_keep_newest(q) ==
    LET r == resize_loop(q, 0)
        kept == IF r.q.items = <<>> /\ q.items # <<>>
                THEN [q EXCEPT !.items = <<q.items[Len(q.items)]>>,
                               !.count = 1,
                               !.size = get_packet_size(q.items[Len(q.items)]) + OVERHEAD]
                ELSE r.q
        n == Len(q.items) - Len(kept.items)
    IN [q |-> kept,
        calls |-> IF n > 0 /\ q.on_packet_dropped THEN <<n>> ELSE <<>>]

\* mutant: on_packet_dropped is called once per dropped entry
resize_notify_each(q) ==
    LET r == resize_loop(q, 0) IN
    [q |-> r.q,
     calls |-> IF r.dropped > 0 /\ q.on_packet_dropped
               THEN [i \in 1..r.dropped |-> 1] ELSE <<>>]

\* _resize: the queue after trimming, and the on_packet_dropped calls it makes
resize(q) ==
    LET r == resize_loop(q, 0) IN
    [q |-> r.q,
     calls |-> IF r.dropped > 0 /\ q.on_packet_dropped THEN <<r.dropped>> ELSE <<>>]

push(q, packet) ==
    resize([q EXCEPT !.items = Append(@, packet),
                     !.count = @ + 1,
                     !.size = @ + get_packet_size(packet) + OVERHEAD])

set_backlog(q, value) == resize([q EXCEPT !.backlog = value])

pop(q) == pop_unsafe(q)

RECURSIVE clear(_)
clear(q) ==
    LET r == pop_unsafe(q) IN
    IF r.ret = None THEN r.q ELSE clear(r.q)

RECURSIVE get_all_loop(_, _)
get_all_loop(q, packets) ==
    LET r == pop(q) IN
    IF r.ret = None THEN [q |-> r.q, packets |-> packets]
    ELSE get_all_loop(r.q, Append(packets, r.ret))

\* mutant: the drained list is built newest first
get_all_newest_first(q) ==
    LET r == get_all_loop(q, <<>>)
        n == Len(r.packets)
    IN [q |-> r.q, packets |-> [i \in 1..n |-> r.packets[n + 1 - i]]]

get_all(q) == get_all_loop(q, <<>>)

PacketQueue_init(installed) ==
    [items |-> <<>>, size |-> 0, count |-> 0, backlog |-> DefaultBacklog,
     on_packet_dropped |-> installed]

-----------------------------------------------------------------------------
(* TcpProtocol: threads and construction *)

reconnect_interval == 1
backlog_queue == 1

App == 0
Producers == 1..NProducers
\* the background threads a run can start, under either limit
Connectors ==
    (NProducers + 1)..(NProducers + IF MaxSpawn > MaxSpawnR THEN MaxSpawn ELSE MaxSpawnR)
Threads == {App} \cup Producers \cup Connectors
NoThread == -1

\* the packet dict producer p hands to write_packet: the first producer
\* logs small entries, the others entries with data
PacketOf(p) == IF p = 1 THEN SmallEntry ELSE BigEntry

NoFlush == [packets |-> <<>>, idx |-> 0]

\* no call of a pure function was made
NoCall == [fn |-> "none"]

NoLimits ==
    [writes |-> 0, spawn |-> 0, connects |-> 0, disconnects |-> 0, ticks |-> 0]

\* callbacks: on_error(e) with the kind of e and the packet or count it is
\* about, on_connect(banner), on_disconnect()
on_error(kind, n) == [name |-> "on_error", kind |-> kind, n |-> n]
on_connect == [name |-> "on_connect", kind |-> "", n |-> 0]
on_disconnect == [name |-> "on_disconnect", kind |-> "", n |-> 0]

\* the history before any call
\* settled is "closing" inside a disconnect() that began while no write_packet
\* call was running, "yes" from its return, "no" from the next call of
\* connect() or write_packet()
NoHistory == [evicted |-> {}, cleared |-> {}, settled |-> "no"]

\* the id the wire log gives to the LogHeader packet of _send_log_header
LogHeaderId == 0

Settings ==
    {[reconnect |-> r, backlog_enabled |-> b, keep_open |-> (~b) \/ k] :
        r \in BOOLEAN, b \in BOOLEAN, k \in BOOLEAN}

\* __init__: the queue is made, its limit set (KB to bytes), then the
\* overflow callback installed
TcpProtocol_queue ==
    [set_backlog(PacketQueue_init(FALSE), backlog_queue * 1024).q
        EXCEPT !.on_packet_dropped = TRUE]

TcpProtocol_init(c) ==
    /\ cfg = c
    /\ connected = FALSE
    /\ failed = FALSE
    /\ socket = 0
    /\ connect_in_progress = FALSE
    /\ last_reconnect_time = 0
    /\ lock = NoThread
    /\ now = reconnect_interval
    /\ pc = [t \in Threads |-> IF t \in Connectors THEN "unborn" ELSE "idle"]
    /\ pkt = [p \in Producers |-> None]
    /\ cur = [p \in Producers |-> 0]
    /\ flush = [c2 \in Connectors |-> NoFlush]
    /\ wire = <<>>
    /\ cb = <<>>
    /\ written = [p \in Producers |-> 0]
    /\ nspawn = 0
    /\ napp = [connect |-> 0, disconnect |-> 0]

-----------------------------------------------------------------------------
(* SpecQ: one PacketQueue and a caller making one operation after another *)

NoOp == [op |-> "none", ret |-> None, list |-> <<>>]

InitQ ==
    /\ \E installed \in BOOLEAN : queue = PacketQueue_init(installed)
    /\ pushed = <<>>
    /\ out = <<>>
    /\ last = NoOp
    /\ drop_log = <<>>
    /\ TcpProtocol_init([reconnect |-> TRUE, backlog_enabled |-> TRUE, keep_open |-> TRUE])
    /\ lim = NoLimits
    /\ arg = NoCall
    /\ ret = NoCall
    /\ hist = NoHistory

QPush ==
    /\ Len(pushed) < MaxPush
    /\ \E v \in QueuePacketVals :
        LET packet == MkPacket(Len(pushed) + 1, v)
            r == push(queue, packet)
        IN /\ queue' = r.q
           /\ drop_log' = drop_log \o r.calls
           /\ pushed' = Append(pushed, packet)
           /\ last' = [op |-> "push", ret |-> None, list |-> <<>>]
    /\ UNCHANGED out
    /\ UNCHANGED tvars

QPop ==
    LET r == pop(queue) IN
    /\ queue' = r.q
    /\ out' = IF r.ret = None THEN out ELSE Append(out, r.ret)
    /\ last' = [op |-> "pop", ret |-> r.ret, list |-> <<>>]
    /\ UNCHANGED <<pushed, drop_log>>
    /\ UNCHANGED tvars

QClear ==
    /\ queue' = clear(queue)
    /\ out' = out \o queue.items
    /\ last' = [op |-> "clear", ret |-> None, list |-> <<>>]
    /\ UNCHANGED <<pushed, drop_log>>
    /\ UNCHANGED tvars

QGetAll ==
    LET r == get_all(queue) IN
    /\ queue' = r.q
    /\ out' = out \o r.packets
    /\ last' = [op |-> "get_all", ret |-> None, list |-> r.packets]
    /\ UNCHANGED <<pushed, drop_log>>
    /\ UNCHANGED tvars

QSetBacklog ==
    /\ \E value \in BacklogValues :
        LET r == set_backlog(queue, value) IN
        /\ queue' = r.q
        /\ drop_log' = drop_log \o r.calls
    /\ last' = [op |-> "set_backlog", ret |-> None, list |-> <<>>]
    /\ UNCHANGED <<pushed, out>>
    /\ UNCHANGED tvars

NextQ == QPush \/ QPop \/ QClear \/ QGetAll \/ QSetBacklog

SpecQ == InitQ /\ [][NextQ]_vars

-----------------------------------------------------------------------------
(* TcpProtocol: the code shared by the threads *)

Goto(t, label) == pc' = [pc EXCEPT ![t] = label]

\* threading.Thread(target=self._background_connect).start(), by thread t
\* which goes on at label
StartThread(t, label) ==
    /\ pc' = [pc EXCEPT ![t] = label, ![NProducers + nspawn + 1] = "c_connect"]
    /\ nspawn' = nspawn + 1

\* producers about to start a background thread
Reserved == Cardinality({p \in Producers : pc[p] = "w_spawn"})

\* A run starts at most lim.spawn background threads: the step that decides
\* to start one more is not taken.
CanSpawn == nspawn + Reserved < lim.spawn

KnownPacketTypes ==
    {"LOG_HEADER", "LOG_ENTRY", "WATCH", "PROCESS_FLOW", "CONTROL_COMMAND", "STREAM"}

\* BinaryFormatter.format: whether the buffer is non-empty
format(packet) == packet.ptype \in KnownPacketTypes

\* what the network does to one sendall + recv(ANSWER_SIZE) cycle
SendOutcomes == {"ok", "send_failed", "ack_timeout", "ack_short"}

\* _internal_write_packet by thread t: whether it raises, and the wire log
\* after it (a packet is logged once its acknowledgement was read)
internal_write_packet(t, packet, outcome) ==
    IF socket = 0
    THEN [raised |-> TRUE, wire |-> wire]
    ELSE IF ~format(packet)
    THEN [raised |-> FALSE, wire |-> wire]
    ELSE IF outcome # "ok"
    THEN [raised |-> TRUE, wire |-> wire]
    ELSE [raised |-> FALSE,
          wire |-> Append(wire, [sock |-> socket, by |-> t, id |-> packet.id])]

LogHeader == [id |-> LogHeaderId, ptype |-> "LOG_HEADER", text |-> 0, data |-> 0]

\* _internal_disconnect: the socket is shut down, closed and forgotten,
\* _connected is cleared, and on_disconnect called if it was set
internal_disconnect ==
    /\ socket' = 0
    /\ connected' = FALSE

\* the callbacks _internal_disconnect makes
internal_disconnect_calls == IF connected THEN <<on_disconnect>> ELSE <<>>

\* packets.index(packet): the first position holding a dict equal to packet
index(packets, packet) ==
    CHOOSE i \in 1..Len(packets) :
        /\ PyEq(packets[i], packet)
        /\ \A j \in 1..(i - 1) : ~PyEq(packets[j], packet)

\* _on_backlog_overflow: on_error(Exception("Backlog overflow: ...")) for
\* each call of on_packet_dropped
on_backlog_overflow(counts) ==
    [i \in 1..Len(counts) |-> on_error("overflow", counts[i])]

\* _resize pops from the head: the packets the counts reported by the pushes
\* of added onto items stand for
Reported(items, added, calls) ==
    LET all == items \o added
        n == SumSeq(calls)
    IN {all[i].id : i \in 1..(IF n < Len(all) THEN n ELSE Len(all))}

\* queue.push of each packet of a list, in order
RECURSIVE push_all(_, _, _)
push_all(q, calls, packets) ==
    IF packets = <<>> THEN [q |-> q, calls |-> calls]
    ELSE LET r == push(q, Head(packets)) IN
         push_all(r.q, calls \o r.calls, Tail(packets))

\* an except branch that pushes back only the packets after the failed one
requeue_list_remaining_only(packets, packet) ==
    SubSeq(packets, index(packets, packet) + 1, Len(packets))

\* _flush_queue, lines 490-492: what is pushed back when the send of
\* packet, taken from packets, has failed
requeue_list(packets, packet) ==
    <<packet>> \o SubSeq(packets, index(packets, packet) + 1, Len(packets))

\* write_packet calls made so far, and the id of the next packet of p
Written == SumSeq([p \in Producers |-> written[p]])
NextId(p) == written[p] * NProducers + p

\* a write_packet that queues also when reconnect is disabled
write_packet_route_queue_always(is_connected, c) ==
    IF ~is_connected
    THEN IF c.backlog_enabled THEN "queue" ELSE "drop"
    ELSE "send"

\* a write_packet that sends whatever the flag says
write_packet_route_send_always(is_connected, c) == "send"

\* write_packet, lines 441-449: what becomes of the packet, from the flag
\* and the settings it reads
write_packet_route(is_connected, c) ==
    IF ~is_connected
    THEN IF ~c.reconnect THEN "drop"
         ELSE IF c.backlog_enabled THEN "queue" ELSE "drop"
    ELSE "send"

-----------------------------------------------------------------------------
(* write_packet, by producer p *)

\* the call, and line 441-445: read _connected, reconnect, backlog_enabled
write_packet(p) ==
    /\ pc[p] = "idle"
    /\ Written < lim.writes
    /\ LET route == write_packet_route(connected, cfg) IN
       /\ pkt' = [pkt EXCEPT ![p] = IF route = "drop" THEN None
                                      ELSE MkPacket(NextId(p), PacketOf(p))]
       /\ Goto(p, CASE route = "drop" -> "idle"
                    [] route = "queue" -> "w_push"
                    [] route = "send" -> "w_lock")
    /\ written' = [written EXCEPT ![p] = @ + 1]
    /\ cb' = <<>>
    /\ hist' = [hist EXCEPT !.settled = "no"]
    /\ UNCHANGED <<queue, pushed, out, last, drop_log, cfg, connected,
                   failed, socket, connect_in_progress, last_reconnect_time,
                   lock, now, cur, flush, wire, nspawn, napp, lim, arg, ret>>

\* line 446: self._queue.push(packet); line 447: if self._keep_open
write_packet_push(p) ==
    /\ pc[p] = "w_push"
    /\ LET r == push(queue, pkt[p]) IN
       /\ queue' = r.q
       /\ cb' = on_backlog_overflow(r.calls)
       /\ hist' = [hist EXCEPT !.evicted =
                        @ \cup Reported(queue.items, <<pkt[p]>>, r.calls)]
    /\ Goto(p, IF cfg.keep_open THEN "w_try" ELSE "idle")
    /\ pkt' = [pkt EXCEPT ![p] = None]
    /\ UNCHANGED <<pushed, out, last, drop_log, cfg, connected, failed,
                   socket, connect_in_progress, last_reconnect_time, lock,
                   now, cur, flush, wire, written, nspawn, napp, lim,
                   arg, ret>>

\* _try_reconnect, lines 423-428: the two early returns
try_reconnect(p) ==
    /\ pc[p] = "w_try"
    /\ IF ~cfg.reconnect \/ connect_in_progress
       THEN Goto(p, "idle") /\ UNCHANGED cur
       ELSE IF now - last_reconnect_time < reconnect_interval
       THEN Goto(p, "idle") /\ UNCHANGED cur
       ELSE CanSpawn /\ Goto(p, "w_spawn") /\ cur' = [cur EXCEPT ![p] = now]
    /\ cb' = <<>>
    /\ UNCHANGED <<queue, pushed, out, last, drop_log, cfg, connected,
                   failed, socket, connect_in_progress, last_reconnect_time,
                   lock, now, pkt, flush, wire, written, nspawn, napp, lim,
                   arg, ret, hist>>

\* _try_reconnect, lines 430-434: note the time, start the thread
try_reconnect_start(p) ==
    /\ pc[p] = "w_spawn"
    /\ last_reconnect_time' = cur[p]
    /\ cur' = [cur EXCEPT ![p] = 0]
    /\ StartThread(p, "idle")
    /\ cb' = <<>>
    /\ UNCHANGED <<queue, pushed, out, last, drop_log, cfg, connected,
                   failed, socket, connect_in_progress, lock, now, pkt,
                   flush, wire, written, napp, lim, arg, ret, hist>>

\* line 453: with self._lock
write_packet_lock(p) ==
    /\ pc[p] = "w_lock"
    /\ lock = NoThread
    /\ lock' = p
    /\ Goto(p, "w_send")
    /\ cb' = <<>>
    /\ UNCHANGED <<queue, pushed, out, last, drop_log, cfg, connected,
                   failed, socket, connect_in_progress, last_reconnect_time,
                   now, pkt, cur, flush, wire, written, nspawn, napp, lim,
                   arg, ret, hist>>

\* a write_packet without the except clause: the exception of the send
\* leaves write_packet and reaches the caller
write_packet_no_except(raised) == IF raised THEN "raised" ELSE "idle"

\* lines 452-455: try ... except Exception: where the call goes on after
\* the send, which raised or not
write_packet_except(raised) == IF raised THEN "w_reset" ELSE "idle"

\* line 454: _internal_write_packet under the lock, then the lock is left
write_packet_send(p) ==
    /\ pc[p] = "w_send"
    /\ \E outcome \in SendOutcomes :
        LET r == internal_write_packet(p, pkt[p], outcome) IN
        /\ wire' = r.wire
        /\ Goto(p, write_packet_except(r.raised))
        /\ pkt' = [pkt EXCEPT ![p] = IF r.raised THEN @ ELSE None]
    /\ lock' = NoThread
    /\ cb' = <<>>
    /\ UNCHANGED <<queue, pushed, out, last, drop_log, cfg, connected,
                   failed, socket, connect_in_progress, last_reconnect_time,
                   now, cur, flush, written, nspawn, napp, lim, arg, ret, hist>>

\* line 456: self._reset()
write_packet_reset(p) ==
    /\ pc[p] = "w_reset"
    /\ internal_disconnect
    /\ cb' = internal_disconnect_calls
    /\ Goto(p, "w_failed")
    /\ UNCHANGED <<queue, pushed, out, last, drop_log, cfg, failed,
                   connect_in_progress, last_reconnect_time, lock, now, pkt,
                   cur, flush, wire, written, nspawn, napp, lim, arg, ret, hist>>

\* an except branch that never pushes the packet back
write_packet_requeue_never(enabled, q, packet) == [q |-> q, calls |-> <<>>]

\* what the except branch does after the reset: the packet pushed back, or
\* not; the queue and the callbacks it calls
write_packet_requeue(enabled, q, packet) ==
    IF enabled
    THEN push(q, packet)
    ELSE [q |-> q, calls |-> <<>>]

\* lines 457-460: push the packet back, call on_error(e)
write_packet_failed(p) ==
    /\ pc[p] = "w_failed"
    /\ LET r == write_packet_requeue(cfg.backlog_enabled, queue, pkt[p]) IN
       /\ queue' = r.q
       /\ cb' = on_backlog_overflow(r.calls) \o <<on_error("send", pkt[p].id)>>
       /\ hist' = [hist EXCEPT !.evicted =
                        @ \cup Reported(queue.items, <<pkt[p]>>, r.calls)]
    /\ Goto(p, "idle")
    /\ pkt' = [pkt EXCEPT ![p] = None]
    /\ UNCHANGED <<pushed, out, last, drop_log, cfg, connected, failed,
                   socket, connect_in_progress, last_reconnect_time, lock,
                   now, cur, flush, wire, written, nspawn, napp, lim,
                   arg, ret>>

Producer(p) ==
    \/ write_packet(p)
    \/ write_packet_push(p)
    \/ try_reconnect(p)
    \/ try_reconnect_start(p)
    \/ write_packet_lock(p)
    \/ write_packet_send(p)
    \/ write_packet_reset(p)
    \/ write_packet_failed(p)

-----------------------------------------------------------------------------
(* _background_connect, by background thread c *)

\* what the network does to socket.connect and the exchange of banners
ConnectOutcomes == {"ok", "refused", "banner_failed"}

\* _internal_connect, lines 336-374: take the lock, drop the old socket,
\* make a new one, connect, read the banner, send the client banner, set
\* _connected.  An exception leaves the lock.
internal_connect(c) ==
    /\ pc[c] = "c_connect"
    /\ lock = NoThread
    /\ \E outcome \in ConnectOutcomes :
        CASE outcome = "refused" ->
                /\ socket' = 0
                /\ Goto(c, "c_failed")
                /\ UNCHANGED <<connected, lock>>
          [] outcome = "banner_failed" ->
                /\ socket' = c
                /\ Goto(c, "c_failed")
                /\ UNCHANGED <<connected, lock>>
          [] outcome = "ok" ->
                /\ socket' = c
                /\ connected' = TRUE
                /\ lock' = c
                /\ Goto(c, "c_header")
    /\ cb' = <<>>
    /\ UNCHANGED <<queue, pushed, out, last, drop_log, cfg, failed,
                   connect_in_progress, last_reconnect_time, now, pkt, cur,
                   flush, wire, written, nspawn, napp, lim, arg, ret, hist>>

\* lines 377-382: _send_log_header, on_connect, and the lock is left
send_log_header(c) ==
    /\ pc[c] = "c_header"
    /\ \E outcome \in SendOutcomes :
        LET r == internal_write_packet(c, LogHeader, outcome) IN
        /\ wire' = r.wire
        /\ cb' = IF r.raised THEN <<>> ELSE <<on_connect>>
        /\ Goto(c, IF r.raised THEN "c_failed" ELSE "c_set")
    /\ lock' = NoThread
    /\ UNCHANGED <<queue, pushed, out, last, drop_log, cfg, connected,
                   failed, socket, connect_in_progress, last_reconnect_time,
                   now, pkt, cur, flush, written, nspawn, napp, lim,
                   arg, ret, hist>>

\* lines 320-324: _connected = True, _failed = False, if backlog_enabled
background_connect_set(c) ==
    /\ pc[c] = "c_set"
    /\ connected' = TRUE
    /\ failed' = FALSE
    /\ Goto(c, IF cfg.backlog_enabled THEN "c_flush" ELSE "c_finally")
    /\ cb' = <<>>
    /\ UNCHANGED <<queue, pushed, out, last, drop_log, cfg, socket,
                   connect_in_progress, last_reconnect_time, lock, now, pkt,
                   cur, flush, wire, written, nspawn, napp, lim, arg, ret, hist>>

\* _flush_queue, line 483: packets = self._queue.get_all()
flush_queue_get_all(c) ==
    /\ pc[c] = "c_flush"
    /\ LET r == get_all(queue) IN
       /\ queue' = r.q
       /\ flush' = [flush EXCEPT ![c] =
                        IF r.packets = <<>> THEN NoFlush
                        ELSE [packets |-> r.packets, idx |-> 1]]
       /\ Goto(c, IF r.packets = <<>> THEN "c_finally" ELSE "f_lock")
    /\ cb' = <<>>
    /\ UNCHANGED <<pushed, out, last, drop_log, cfg, connected, failed,
                   socket, connect_in_progress, last_reconnect_time, lock,
                   now, pkt, cur, wire, written, nspawn, napp, lim, arg, ret, hist>>

\* another order of the loop: the newest packet first
flush_packet_newest_first(f) == f.packets[Len(f.packets) + 1 - f.idx]

\* line 484: for packet in packets, the packet of the current iteration
flush_packet(f) == f.packets[f.idx]

\* line 486: with self._lock
flush_queue_lock(c) ==
    /\ pc[c] = "f_lock"
    /\ lock = NoThread
    /\ lock' = c
    /\ Goto(c, "f_send")
    /\ cb' = <<>>
    /\ UNCHANGED <<queue, pushed, out, last, drop_log, cfg, connected,
                   failed, socket, connect_in_progress, last_reconnect_time,
                   now, pkt, cur, flush, wire, written, nspawn, napp, lim,
                   arg, ret, hist>>

\* line 487: _internal_write_packet(packet) under the lock, then the lock is
\* left and the loop goes on, ends or breaks
flush_queue_send(c) ==
    /\ pc[c] = "f_send"
    /\ \E outcome \in SendOutcomes :
        LET f == flush[c]
            r == internal_write_packet(c, flush_packet(f), outcome)
        IN /\ wire' = r.wire
           /\ IF r.raised
              THEN Goto(c, "f_requeue") /\ UNCHANGED flush
              ELSE /\ flush' = [flush EXCEPT ![c].idx = @ + 1]
                   /\ Goto(c, IF f.idx = Len(f.packets) THEN "c_finally"
                                                         ELSE "f_lock")
    /\ lock' = NoThread
    /\ cb' = <<>>
    /\ UNCHANGED <<queue, pushed, out, last, drop_log, cfg, connected,
                   failed, socket, connect_in_progress, last_reconnect_time,
                   now, pkt, cur, written, nspawn, napp, lim, arg, ret, hist>>

\* lines 490-492: push the failed packet and the remaining ones
flush_queue_requeue(c) ==
    /\ pc[c] = "f_requeue"
    /\ LET f == flush[c]
           again == requeue_list(f.packets, flush_packet(f))
           r == push_all(queue, <<>>, again)
       IN /\ queue' = r.q
          /\ cb' = on_backlog_overflow(r.calls)
          /\ hist' = [hist EXCEPT !.evicted =
                           @ \cup Reported(queue.items, again, r.calls)]
    /\ Goto(c, "f_reset")
    /\ UNCHANGED <<pushed, out, last, drop_log, cfg, connected, failed,
                   socket, connect_in_progress, last_reconnect_time, lock,
                   now, pkt, cur, flush, wire, written, nspawn, napp, lim,
                   arg, ret>>

\* line 493: self._reset(); lines 494-496: on_error(e), break
flush_queue_reset(c) ==
    /\ pc[c] = "f_reset"
    /\ internal_disconnect
    /\ cb' = internal_disconnect_calls
              \o <<on_error("send", flush_packet(flush[c]).id)>>
    /\ Goto(c, "c_finally")
    /\ UNCHANGED <<queue, pushed, out, last, drop_log, cfg, failed,
                   connect_in_progress, last_reconnect_time, lock, now, pkt,
                   cur, flush, wire, written, nspawn, napp, lim, arg, ret, hist>>

\* lines 327-330: _failed = True, on_error(e)
background_connect_failed(c) ==
    /\ pc[c] = "c_failed"
    /\ failed' = TRUE
    /\ cb' = <<on_error("connect", 0)>>
    /\ Goto(c, "c_finally")
    /\ UNCHANGED <<queue, pushed, out, last, drop_log, cfg, connected,
                   socket, connect_in_progress, last_reconnect_time, lock,
                   now, pkt, cur, flush, wire, written, nspawn, napp, lim,
                   arg, ret, hist>>

\* lines 331-332: finally, _connect_in_progress = False
background_connect_finally(c) ==
    /\ pc[c] = "c_finally"
    /\ connect_in_progress' = FALSE
    /\ Goto(c, "done")
    /\ cb' = <<>>
    /\ UNCHANGED <<queue, pushed, out, last, drop_log, cfg, connected,
                   failed, socket, last_reconnect_time, lock, now, pkt, cur,
                   flush, wire, written, nspawn, napp, lim, arg, ret, hist>>

Connector(c) ==
    \/ internal_connect(c)
    \/ send_log_header(c)
    \/ background_connect_set(c)
    \/ flush_queue_get_all(c)
    \/ flush_queue_lock(c)
    \/ flush_queue_send(c)
    \/ flush_queue_requeue(c)
    \/ flush_queue_reset(c)
    \/ background_connect_failed(c)
    \/ background_connect_finally(c)

-----------------------------------------------------------------------------
(* connect() and disconnect(), by the application thread *)

\* lines 307-314: under the lock, return if connected or connecting, else
\* set _connect_in_progress; then start the thread
connect ==
    /\ pc[App] = "idle"
    /\ napp.connect < lim.connects
    /\ lock = NoThread
    /\ napp' = [napp EXCEPT !.connect = @ + 1]
    /\ IF connected \/ connect_in_progress
       THEN UNCHANGED <<connect_in_progress, pc, nspawn>>
       ELSE /\ CanSpawn
            /\ connect_in_progress' = TRUE
            /\ StartThread(App, "idle")
    /\ cb' = <<>>
    /\ hist' = [hist EXCEPT !.settled = "no"]
    /\ UNCHANGED <<queue, pushed, out, last, drop_log, cfg, connected,
                   failed, socket, last_reconnect_time, lock, now, pkt, cur,
                   flush, wire, written, lim, arg, ret>>

\* lines 394-395: take the lock, self._queue.clear()
disconnect ==
    /\ pc[App] = "idle"
    /\ napp.disconnect < lim.disconnects
    /\ lock = NoThread
    /\ lock' = App
    /\ napp' = [napp EXCEPT !.disconnect = @ + 1]
    /\ queue' = clear(queue)
    /\ hist' = [hist EXCEPT
                    !.cleared = @ \cup {queue.items[i].id : i \in DOMAIN queue.items},
                    !.settled = IF \A p \in Producers : pc[p] = "idle"
                                THEN "closing" ELSE "no"]
    /\ Goto(App, "d_reset")
    /\ cb' = <<>>
    /\ UNCHANGED <<pushed, out, last, drop_log, cfg, connected, failed,
                   socket, connect_in_progress, last_reconnect_time, now,
                   pkt, cur, flush, wire, written, nspawn, lim, arg, ret>>

\* line 396: _internal_disconnect, and the lock is left
disconnect_internal ==
    /\ pc[App] = "d_reset"
    /\ internal_disconnect
    /\ cb' = internal_disconnect_calls
    /\ lock' = NoThread
    /\ Goto(App, "idle")
    /\ hist' = [hist EXCEPT !.settled = IF @ = "closing" THEN "yes" ELSE "no"]
    /\ UNCHANGED <<queue, pushed, out, last, drop_log, cfg, failed,
                   connect_in_progress, last_reconnect_time, now, pkt, cur,
                   flush, wire, written, nspawn, napp, lim, arg, ret>>

-----------------------------------------------------------------------------
(* Spec: a TcpProtocol, its producers, background threads and application *)

Init ==
    /\ queue = TcpProtocol_queue
    /\ pushed = <<>>
    /\ out = <<>>
    /\ last = NoOp
    /\ drop_log = <<>>
    /\ arg = NoCall
    /\ ret = NoCall
    /\ hist = NoHistory
    /\ \E c \in Settings : TcpProtocol_init(c)
    /\ lim = [writes |-> MaxWrites, spawn |-> MaxSpawn, connects |-> MaxConnects,
              disconnects |-> MaxDisconnects, ticks |-> 0]

Next ==
    \/ \E p \in Producers : Producer(p)
    \/ \E c \in Connectors : Connector(c)
    \/ connect
    \/ disconnect
    \/ disconnect_internal

Spec == Init /\ [][Next]_vars

-----------------------------------------------------------------------------
(* SpecReconnect: the TcpProtocol with reconnect enabled, over time: the    *)
(* producers, up to two background threads, connect() and a clock           *)

\* time.time() grows between two steps of the threads
Tick ==
    /\ now < reconnect_interval + lim.ticks
    /\ now' = now + 1
    /\ cb' = <<>>
    /\ UNCHANGED <<queue, pushed, out, last, drop_log, cfg, connected, failed,
                   socket, connect_in_progress, last_reconnect_time, lock, pc,
                   pkt, cur, flush, wire, written, nspawn, napp, lim,
                   arg, ret, hist>>

InitReconnect ==
    /\ queue = TcpProtocol_queue
    /\ pushed = <<>>
    /\ out = <<>>
    /\ last = NoOp
    /\ drop_log = <<>>
    /\ arg = NoCall
    /\ ret = NoCall
    /\ hist = NoHistory
    /\ \E c \in {s \in Settings : s.reconnect} : TcpProtocol_init(c)
    /\ lim = [writes |-> MaxWritesR, spawn |-> MaxSpawnR, connects |-> MaxConnectsR,
              disconnects |-> 0, ticks |-> MaxTicksR]

NextReconnect ==
    \/ \E p \in Producers : Producer(p)
    \/ \E c \in Connectors : Connector(c)
    \/ connect
    \/ Tick

SpecReconnect == InitReconnect /\ [][NextReconnect]_vars

\* the same, every thread that can take a step being scheduled in the end
SpecReconnectFair == SpecReconnect /\ WF_vars(NextReconnect)

-----------------------------------------------------------------------------
(* SpecDisconnect: disconnect() against senders whose acknowledgement may  *)
(* never come.  The connected socket has no timeout (line 371), so         *)
(* recv(ANSWER_SIZE) of line 475 returns only when bytes arrive or the      *)
(* socket is shut down.                                                     *)

\* lines 471-475: sendall done, the thread waits in recv for an
\* acknowledgement the peer does not send; it keeps the lock
write_packet_wait(p) ==
    /\ pc[p] = "w_send"
    /\ socket # 0
    /\ format(pkt[p])
    /\ Goto(p, "w_ack")
    /\ cb' = <<>>
    /\ UNCHANGED <<queue, pushed, out, last, drop_log, cfg, connected, failed,
                   socket, connect_in_progress, last_reconnect_time, lock, now,
                   pkt, cur, flush, wire, written, nspawn, napp, lim,
                   arg, ret, hist>>

\* lines 402, 475-477: another thread has shut the socket down: recv returns
\* no bytes, ConnectionError is raised and the lock is left
write_packet_unblocked(p) ==
    /\ pc[p] = "w_ack"
    /\ socket = 0
    /\ lock' = NoThread
    /\ Goto(p, write_packet_except(TRUE))
    /\ cb' = <<>>
    /\ UNCHANGED <<queue, pushed, out, last, drop_log, cfg, connected, failed,
                   socket, connect_in_progress, last_reconnect_time, now, pkt,
                   cur, flush, wire, written, nspawn, napp, lim, arg, ret, hist>>

\* the application calls disconnect() and arrives at line 394
disconnect_call ==
    /\ pc[App] = "idle"
    /\ napp.disconnect < lim.disconnects
    /\ napp' = [napp EXCEPT !.disconnect = @ + 1]
    /\ Goto(App, "d_lock")
    /\ cb' = <<>>
    /\ UNCHANGED <<queue, pushed, out, last, drop_log, cfg, connected, failed,
                   socket, connect_in_progress, last_reconnect_time, lock, now,
                   pkt, cur, flush, wire, written, nspawn, lim, arg, ret, hist>>

\* lines 394-395: with self._lock, once it is free; self._queue.clear()
disconnect_lock ==
    /\ pc[App] = "d_lock"
    /\ lock = NoThread
    /\ lock' = App
    /\ queue' = clear(queue)
    /\ hist' = [hist EXCEPT
                    !.cleared = @ \cup {queue.items[i].id : i \in DOMAIN queue.items},
                    !.settled = IF \A p \in Producers : pc[p] = "idle"
                                THEN "closing" ELSE "no"]
    /\ Goto(App, "d_reset")
    /\ cb' = <<>>
    /\ UNCHANGED <<pushed, out, last, drop_log, cfg, connected, failed,
                   socket, connect_in_progress, last_reconnect_time, now,
                   pkt, cur, flush, wire, written, nspawn, napp, lim,
                   arg, ret>>

InitDisconnect ==
    /\ queue = TcpProtocol_queue
    /\ pushed = <<>>
    /\ out = <<>>
    /\ last = NoOp
    /\ drop_log = <<>>
    /\ arg = NoCall
    /\ ret = NoCall
    /\ hist = NoHistory
    /\ \E c \in Settings : TcpProtocol_init(c)
    /\ lim = [writes |-> MaxWritesD, spawn |-> 1, connects |-> 1,
              disconnects |-> 1, ticks |-> 0]

NextDisconnect ==
    \/ \E p \in Producers : Producer(p)
    \/ \E p \in Producers : write_packet_wait(p)
    \/ \E p \in Producers : write_packet_unblocked(p)
    \/ \E c \in Connectors : Connector(c)
    \/ connect
    \/ disconnect_call
    \/ disconnect_lock
    \/ disconnect_internal

\* every thread that can take a step is scheduled in the end
SpecDisconnect ==
    InitDisconnect /\ [][NextDisconnect]_vars /\ WF_vars(NextDisconnect)

-----------------------------------------------------------------------------
(* SpecConfig: the calls that configure a connection: the constructor of    *)
(* TcpProtocol with keyword arguments, and parse_connection_string          *)

\* the parameters of TcpProtocol.__init__
TcpProtocol_params ==
    {"host", "port", "timeout", "app_name", "host_name", "room",
     "on_error", "on_connect", "on_disconnect",
     "reconnect", "reconnect_interval",
     "backlog_enabled", "backlog_queue", "backlog_keep_open"}

\* kwargs.get(name, default)
Get(kwargs, name, default) ==
    IF name \in DOMAIN kwargs THEN kwargs[name] ELSE default

\* TcpProtocol(**kwargs): Python raises TypeError for a keyword the
\* signature lacks; otherwise the settings are stored, and route is what
\* write_packet does with a packet once connected
TcpProtocol_new(kwargs) ==
    IF ~(DOMAIN kwargs \subseteq TcpProtocol_params)
    THEN [fn |-> "TcpProtocol", raised |-> "TypeError", settings |-> <<>>,
          route |-> "none"]
    ELSE LET b == Get(kwargs, "backlog_enabled", TRUE)
             c == [reconnect |-> Get(kwargs, "reconnect", TRUE),
                   backlog_enabled |-> b,
                   keep_open |-> (~b) \/ Get(kwargs, "backlog_keep_open", TRUE)]
         IN [fn |-> "TcpProtocol", raised |-> "none", settings |-> c,
             route |-> write_packet_route(TRUE, c)]

\* the keyword arguments of the calls made: boolean settings, each given
\* or not, as the tests and SmartInspect.connect pass them
BoolKeywords ==
    {"reconnect", "backlog_enabled", "backlog_keep_open", "async_enabled",
     "async_throttle"}

ConstructorCalls ==
    {[fn |-> "TcpProtocol", kwargs |-> k] :
        k \in UNION {[names -> BOOLEAN] : names \in SUBSET BoolKeywords}}

\* protocol = TcpProtocol(...)
Construct ==
    /\ arg.fn = "TcpProtocol"
    /\ ret = NoCall
    /\ ret' = TcpProtocol_new(arg.kwargs)
    /\ UNCHANGED <<qvars, cfg, connected, failed, socket, connect_in_progress,
                   last_reconnect_time, lock, now, pc, pkt, cur, flush, wire,
                   cb, written, nspawn, napp, lim, arg, hist>>

\* Python strings: a string is a sequence of one-character strings
Char(s, i) == SubSeq(s, i, i)

UpperCase == "ABCDEFGHIJKLMNOPQRSTUVWXYZ"
LowerCase == "abcdefghijklmnopqrstuvwxyz"
Digits == "0123456789"

\* s.find(c): the first position of the character c, from 0, or -1
RECURSIVE find_from(_, _, _)
find_from(s, c, i) ==
    IF i > Len(s) THEN -1
    ELSE IF Char(s, i) = c THEN i - 1
    ELSE find_from(s, c, i + 1)

find(s, c) == find_from(s, c, 1)

\* s.lower(), for ASCII letters
RECURSIVE lower(_)
lower(s) ==
    IF s = "" THEN ""
    ELSE LET c == Char(s, 1)
             k == find(UpperCase, c)
         IN (IF k = -1 THEN c ELSE Char(LowerCase, k + 1)) \o lower(Tail(s))

\* s.strip(), for blanks
RECURSIVE lstrip(_)
lstrip(s) == IF s # "" /\ Char(s, 1) = " " THEN lstrip(Tail(s)) ELSE s

RECURSIVE rstrip(_)
rstrip(s) ==
    IF s # "" /\ Char(s, Len(s)) = " " THEN rstrip(SubSeq(s, 1, Len(s) - 1)) ELSE s

strip(s) == rstrip(lstrip(s))

\* s.split(c): the pieces between the occurrences of c
RECURSIVE split(_, _)
split(s, c) ==
    LET k == find(s, c) IN
    IF k = -1 THEN <<s>>
    ELSE <<SubSeq(s, 1, k)>> \o split(SubSeq(s, k + 2, Len(s)), c)

\* s.endswith(t)
endswith(s, t) == Len(s) >= Len(t) /\ SubSeq(s, Len(s) - Len(t) + 1, Len(s)) = t

\* the value of a string of decimal digits; -1 if it is empty or holds
\* another character
RECURSIVE digits_value(_, _)
digits_value(s, acc) ==
    IF s = "" THEN acc
    ELSE LET d == find(Digits, Char(s, 1)) IN
         IF d = -1 THEN -1 ELSE digits_value(Tail(s), acc * 10 + d)

natural(s) == IF s = "" THEN -1 ELSE digits_value(s, 0)

\* the sign of a numeric literal and what follows it
sign_of(s) == IF s # "" /\ Char(s, 1) = "-" THEN -1 ELSE 1
unsigned(s) == IF s # "" /\ Char(s, 1) \in {"-", "+"} THEN Tail(s) ELSE s

\* int(s) for ASCII text: blanks around, a sign, decimal digits; anything
\* else raises ValueError
int(s) ==
    LET t == strip(s)
        n == natural(unsigned(t))
    IN IF n = -1 THEN [raised |-> "ValueError", value |-> 0]
       ELSE [raised |-> "none", value |-> sign_of(t) * n]

\* 10 to the power of n
RECURSIVE pow10(_)
pow10(n) == IF n = 0 THEN 1 ELSE 10 * pow10(n - 1)

\* float(s) for ASCII decimal text (blanks around, a sign, digits with at
\* most one point and at most three digits after it), in thousandths;
\* anything else raises ValueError
float(s) ==
    LET t == unsigned(strip(s))
        k == find(t, ".")
        whole == IF k = -1 THEN t ELSE SubSeq(t, 1, k)
        frac == IF k = -1 THEN "" ELSE SubSeq(t, k + 2, Len(t))
        w == IF whole = "" THEN 0 ELSE natural(whole)
        f == IF frac = "" THEN 0 ELSE natural(frac)
    IN IF (whole = "" /\ frac = "") \/ w = -1 \/ f = -1 \/ Len(frac) > 3
       THEN [raised |-> "ValueError", value |-> 0]
       ELSE [raised |-> "none",
             value |-> sign_of(strip(s)) * (w * 1000 + f * pow10(3 - Len(frac)))]

\* a Python dict of options, a function from the option names: the empty one
NoOptions == <<>>

SetItem(d, k, v) == [x \in DOMAIN d \cup {k} |-> IF x = k THEN v ELSE d[x]]

\* int(x) of a float x given in thousandths over b: rounds toward zero
Trunc(a, b) == IF a >= 0 THEN a \div b ELSE -((-a) \div b)

parse_boolean(value) == lower(strip(value)) \in {"true", "1", "yes"}

Level ==
    ("debug" :> 0) @@ ("verbose" :> 1) @@ ("message" :> 2) @@ ("warning" :> 3)
    @@ ("error" :> 4) @@ ("fatal" :> 5) @@ ("control" :> 6)

parse_level(value) ==
    LET text == lower(strip(value)) IN
    IF text \in DOMAIN Level THEN Level[text] ELSE Level["error"]

\* text[:-n]
CutLast(text, n) == SubSeq(text, 1, Len(text) - n)

\* int(f * mult / 1000) for the float f in thousandths, or the exception
\* float() raised
Scaled(f, mult) ==
    IF f.raised # "none" THEN f
    ELSE [raised |-> "none", value |-> Trunc(f.value * mult, 1000)]

\* the time span in microseconds (the code returns seconds as a float)
parse_timespan_seconds(value) ==
    LET text == lower(strip(value)) IN
    IF endswith(text, "ms") THEN Scaled(float(strip(CutLast(text, 2))), 1000)
    ELSE IF endswith(text, "s") THEN Scaled(float(strip(CutLast(text, 1))), 1000000)
    ELSE Scaled(float(text), 1000)

parse_size_kb(value) ==
    LET text == lower(strip(value)) IN
    IF endswith(text, "kb") THEN Scaled(float(strip(CutLast(text, 2))), 1)
    ELSE IF endswith(text, "mb") THEN Scaled(float(strip(CutLast(text, 2))), 1024)
    ELSE IF endswith(text, "gb")
    THEN Scaled(float(strip(CutLast(text, 2))), 1024 * 1024)
    ELSE Scaled(float(text), 1)

\* re.match(r"tcp\(([^)]+)\)", conn_str, re.IGNORECASE): group 1, or "" when
\* there is no match (a matched group holds at least one character)
re_match(conn_str) ==
    LET close == find_from(conn_str, ")", 5) IN
    IF /\ Len(conn_str) >= 6
       /\ lower(SubSeq(conn_str, 1, 3)) = "tcp"
       /\ Char(conn_str, 4) = "("
       /\ close >= 5
    THEN SubSeq(conn_str, 5, close)
    ELSE ""

pair_key_as_written(pair, eq_index) == strip(SubSeq(pair, 1, eq_index))

pair_key(pair, eq_index) == lower(strip(SubSeq(pair, 1, eq_index)))

\* one round of the loop over the pairs
parse_pair(options, pair) ==
    LET eq_index == find(pair, "=")
        key == pair_key(pair, eq_index)
        value == strip(SubSeq(pair, eq_index + 2, Len(pair)))
        Ok(d) == [raised |-> "none", options |-> d]
        Conv(name, r) ==
            IF r.raised # "none" THEN [raised |-> r.raised, options |-> NoOptions]
            ELSE Ok(SetItem(options, name, r.value))
        size == parse_size_kb(value)
    IN IF eq_index = -1 THEN Ok(options)
       ELSE CASE key = "host" -> Ok(SetItem(options, "host", value))
              [] key = "port" -> Conv("port", int(value))
              [] key = "timeout" -> Conv("timeout", float(value))
              [] key = "room" -> Ok(SetItem(options, "room", value))
              [] key = "reconnect" ->
                    Ok(SetItem(options, "reconnect", parse_boolean(value)))
              [] key = "reconnect.interval" ->
                    Conv("reconnect_interval", parse_timespan_seconds(value))
              [] key = "backlog.enabled" ->
                    Ok(SetItem(options, "backlog_enabled", parse_boolean(value)))
              [] key = "backlog.queue" -> Conv("backlog_queue", size)
              [] key = "backlog.keepopen" ->
                    Ok(SetItem(options, "backlog_keep_open", parse_boolean(value)))
              [] key = "backlog.flushon" ->
                    Ok(SetItem(options, "backlog_flush_on", parse_level(value)))
              [] key = "backlog" ->
                    IF size.raised # "none" THEN Conv("backlog_queue", size)
                    ELSE IF size.value > 0
                    THEN Ok(SetItem(SetItem(options, "backlog_enabled", TRUE),
                                    "backlog_queue", size.value))
                    ELSE Ok(SetItem(options, "backlog_enabled", FALSE))
              [] key = "flushon" ->
                    Ok(SetItem(options, "backlog_flush_on", parse_level(value)))
              [] key = "keepopen" ->
                    Ok(SetItem(options, "backlog_keep_open", parse_boolean(value)))
              [] key = "async.enabled" ->
                    Ok(SetItem(options, "async_enabled", parse_boolean(value)))
              [] key = "async.queue" -> Conv("async_queue", size)
              [] key = "async.throttle" ->
                    Ok(SetItem(options, "async_throttle", parse_boolean(value)))
              [] key = "async.clearondisconnect" ->
                    Ok(SetItem(options, "async_clear_on_disconnect",
                               parse_boolean(value)))
              [] OTHER -> Ok(options)

\* the loop over the pairs, from pair i on: `done` is what the rounds before
\* have left, the options or the exception that ended the loop
RECURSIVE parse_pairs(_, _, _)
parse_pairs(done, pairs, i) ==
    IF i > Len(pairs) \/ done.raised # "none" THEN done
    ELSE parse_pairs(parse_pair(done.options, pairs[i]), pairs, i + 1)

\* SmartInspect.parse_connection_string: the options, or the exception
parse_connection_string(conn_str) ==
    LET group == re_match(conn_str) IN
    IF group = "" THEN [raised |-> "none", options |-> NoOptions]
    ELSE parse_pairs([raised |-> "none", options |-> NoOptions],
                     split(group, ","), 1)

\* the keyword arguments SmartInspect.connect passes to TcpProtocol: an
\* option of the connection string, or the default of connect
connect_kwargs(options) ==
    ("host" :> Get(options, "host", "127.0.0.1"))
    @@ ("port" :> Get(options, "port", 4228))
    @@ ("timeout" :> Get(options, "timeout", 30000))
    @@ ("app_name" :> "Python App")
    @@ ("host_name" :> "localhost")
    @@ ("room" :> Get(options, "room", "default"))
    @@ ("on_error" :> "None")
    @@ ("on_connect" :> "None")
    @@ ("on_disconnect" :> "None")
    @@ ("reconnect" :> Get(options, "reconnect", TRUE))
    @@ ("reconnect_interval" :> Get(options, "reconnect_interval", 3000000))
    @@ ("backlog_enabled" :> Get(options, "backlog_enabled", TRUE))
    @@ ("backlog_queue" :> Get(options, "backlog_queue", 2048))
    @@ ("backlog_keep_open" :> Get(options, "backlog_keep_open", TRUE))
    @@ ("backlog_flush_on" :> Get(options, "backlog_flush_on", Level["error"]))
    @@ ("async_enabled" :> Get(options, "async_enabled", TRUE))
    @@ ("async_queue" :> Get(options, "async_queue", 2048))
    @@ ("async_throttle" :> Get(options, "async_throttle", FALSE))
    @@ ("async_clear_on_disconnect" :>
            Get(options, "async_clear_on_disconnect", FALSE))

\* SmartInspect.connect after the parsing of the string: `stage` is the step
\* that raised, `options` what the string was parsed to
connect_parsed(parsed) ==
    IF parsed.raised # "none"
    THEN [fn |-> "connect", raised |-> parsed.raised, stage |-> "parse",
          options |-> NoOptions]
    ELSE [fn |-> "connect",
          raised |-> TcpProtocol_new(connect_kwargs(parsed.options)).raised,
          stage |-> "TcpProtocol",
          options |-> parsed.options]

\* SmartInspect.connect(connection_string=...): TcpProtocol(...) raises for
\* every keyword set connect passes, so protocol.connect() is never reached
SmartInspect_connect(conn_str) ==
    connect_parsed(IF conn_str = ""
                   THEN [raised |-> "none", options |-> NoOptions]
                   ELSE parse_connection_string(conn_str))

\* the pairs the connection strings are made of: the text of the pair, and
\* the key and the value it was written from (key "" when the text has no "=")
Item(text, key, value) == [text |-> text, key |-> key, value |-> value]

Items ==
    { Item("host=127.0.0.1", "host", "127.0.0.1"),
      Item("port=4229", "port", "4229"),
      Item(" Port = 42 ", "port", "42"),
      Item("port=abc", "port", "abc"),
      Item("timeout=2.5", "timeout", "2.5"),
      Item("timeout=soon", "timeout", "soon"),
      Item("room=X", "room", "X"),
      Item("reconnect=yes", "reconnect", "yes"),
      Item("reconnect.interval=500ms", "reconnect.interval", "500ms"),
      Item("backlog.enabled=1", "backlog.enabled", "1"),
      Item("backlog.queue=2mb", "backlog.queue", "2mb"),
      Item("backlog.keepopen=false", "backlog.keepopen", "false"),
      Item("backlog.flushon=debug", "backlog.flushon", "debug"),
      Item("backlog=512", "backlog", "512"),
      Item("backlog=0", "backlog", "0"),
      Item("flushon=warning", "flushon", "warning"),
      Item("keepopen=no", "keepopen", "no"),
      Item("async.enabled=true", "async.enabled", "true"),
      Item("async.queue=64kb", "async.queue", "64kb"),
      Item("async.throttle=TRUE", "async.throttle", "TRUE"),
      Item("async.clearondisconnect=0", "async.clearondisconnect", "0"),
      Item("colour=red", "colour", "red"),
      Item("host", "", "") }

ExampleItems ==
    << Item("host=127.0.0.1", "host", "127.0.0.1"),
       Item("port=4229", "port", "4229"),
       Item("room=X", "room", "X"),
       Item("async.enabled=true", "async.enabled", "true") >>

\* the pairs that stand second in a string of two
SecondItems ==
    { Item("room=X", "room", "X"),
      Item("port=abc", "port", "abc"),
      Item("backlog=0", "backlog", "0"),
      Item("host", "", "") }

ItemLists ==
    {<<>>} \cup {<<a>> : a \in Items}
    \cup {<<a, b>> : a \in Items, b \in SecondItems}
    \cup {ExampleItems}

\* what stands before and after the pairs
Frames ==
    { [open |-> "tcp(", close |-> ")"],
      [open |-> "TCP(", close |-> ")"],
      [open |-> "udp(", close |-> ")"],
      [open |-> "tcp(", close |-> ""],
      [open |-> " tcp(", close |-> ")"],
      [open |-> "", close |-> ""] }

RECURSIVE Join(_)
Join(items) ==
    IF items = <<>> THEN ""
    ELSE IF Len(items) = 1 THEN items[1].text
    ELSE items[1].text \o "," \o Join(Tail(items))

ConnectionString(frame, items) == frame.open \o Join(items) \o frame.close

\* the calls that take a connection string, with what it was written from
ListsIn(frame) == {l \in ItemLists : lower(frame.open) = "tcp(" \/ Len(l) <= 1}

StringCalls ==
    UNION { { [fn |-> f, conn_str |-> ConnectionString(frame, items),
               frame |-> frame, items |-> items] :
                f \in {"parse_connection_string", "connect"},
                items \in ListsIn(frame) } :
            frame \in Frames }

Parse ==
    /\ arg.fn = "parse_connection_string"
    /\ ret = NoCall
    /\ ret' = [fn |-> "parse_connection_string", stage |-> "parse"]
              @@ parse_connection_string(arg.conn_str)
    /\ UNCHANGED <<qvars, cfg, connected, failed, socket, connect_in_progress,
                   last_reconnect_time, lock, now, pc, pkt, cur, flush, wire,
                   cb, written, nspawn, napp, lim, arg, hist>>

Connect ==
    /\ arg.fn = "connect"
    /\ ret = NoCall
    /\ ret' = SmartInspect_connect(arg.conn_str)
    /\ UNCHANGED <<qvars, cfg, connected, failed, socket, connect_in_progress,
                   last_reconnect_time, lock, now, pc, pkt, cur, flush, wire,
                   cb, written, nspawn, napp, lim, arg, hist>>

ConfigCalls == ConstructorCalls \cup StringCalls

InitConfig ==
    /\ queue = TcpProtocol_queue
    /\ pushed = <<>>
    /\ out = <<>>
    /\ last = NoOp
    /\ drop_log = <<>>
    /\ TcpProtocol_init([reconnect |-> TRUE, backlog_enabled |-> TRUE, keep_open |-> TRUE])
    /\ lim = NoLimits
    /\ arg \in ConfigCalls
    /\ ret = NoCall
    /\ hist = NoHistory

NextConfig ==
    \/ Construct
    \/ Parse
    \/ Connect

SpecConfig == InitConfig /\ [][NextConfig]_vars

-----------------------------------------------------------------------------
(* BinaryFormatter: the bodies of the packets, as sequences of bytes *)

\* the code of a character: of the digits, the letters and some punctuation
ord(c) ==
    IF find(Digits, c) # -1 THEN 48 + find(Digits, c)
    ELSE IF find(UpperCase, c) # -1 THEN 65 + find(UpperCase, c)
    ELSE IF find(LowerCase, c) # -1 THEN 97 + find(LowerCase, c)
    ELSE IF c = " " THEN 32
    ELSE IF c = "-" THEN 45
    ELSE IF c = "." THEN 46
    ELSE 95

\* value.encode("utf-8"), for text of these characters: one byte for each
RECURSIVE encode_string(_)
encode_string(value) ==
    IF value = "" THEN <<>>
    ELSE <<ord(Char(value, 1))>> \o encode_string(Tail(value))

\* the four bytes of a signed 32-bit integer, most significant byte first
write_int32_big_endian(value) ==
    LET u == IF value < 0 THEN value + 2147483647 + 1 ELSE value
        top == IF value < 0 THEN 128 ELSE 0
    IN <<(u \div 16777216) + top, (u \div 65536) % 256, (u \div 256) % 256,
         u % 256>>

\* struct.pack("<i", value), for a value of 32 bits: the four bytes of its
\* two's complement, least significant byte first
write_int32(value) ==
    LET u == IF value < 0 THEN value + 2147483647 + 1 ELSE value
        top == IF value < 0 THEN 128 ELSE 0
    IN <<u % 256, (u \div 256) % 256, (u \div 65536) % 256,
         (u \div 16777216) + top>>

\* struct.pack("<d", timestamp): the timestamp is the OLE date as a double,
\* given by the two 32-bit halves of its 64 bits
write_double(timestamp) == write_int32(timestamp.lo) \o write_int32(timestamp.hi)

\* write_uint32(color_to_int(color)): the bytes r, g, b, a of a colour given
\* as a dict, those of SI_DEFAULT_COLOR_VALUE = 0xFF000005 for None
write_color(packet) ==
    IF "color" \notin DOMAIN packet THEN <<5, 0, 0, 255>>
    ELSE LET color == packet["color"] IN
         <<Get(color, "r", 0), Get(color, "g", 0), Get(color, "b", 0),
           Get(color, "a", 255)>>

compile_log_entry(packet) ==
    LET app_name_bytes == encode_string(Get(packet, "app_name", ""))
        session_name_bytes == encode_string(Get(packet, "session_name", ""))
        title_bytes == encode_string(Get(packet, "title", ""))
        host_name_bytes == encode_string(Get(packet, "host_name", ""))
        data_bytes == Get(packet, "data", <<>>)
    IN write_int32(Get(packet, "log_entry_type", 0))
       \o write_int32(Get(packet, "viewer_id", 0))
       \o write_int32(Len(app_name_bytes))
       \o write_int32(Len(session_name_bytes))
       \o write_int32(Len(title_bytes))
       \o write_int32(Len(host_name_bytes))
       \o write_int32(Len(data_bytes))
       \o write_int32(Get(packet, "process_id", 0))
       \o write_int32(Get(packet, "thread_id", 0))
       \o write_double(packet["timestamp"])
       \o write_color(packet)
       \o app_name_bytes \o session_name_bytes \o title_bytes
       \o host_name_bytes \o data_bytes

compile_watch(packet) ==
    LET name_bytes == encode_string(Get(packet, "name", ""))
        value_bytes == encode_string(Get(packet, "value", ""))
        group_bytes == encode_string(Get(packet, "group", ""))
    IN write_int32(Len(name_bytes))
       \o write_int32(Len(value_bytes))
       \o write_int32(Get(packet, "watch_type", 0))
       \o write_double(packet["timestamp"])
       \o write_int32(Len(group_bytes))
       \o name_bytes \o value_bytes \o group_bytes

compile_process_flow(packet) ==
    LET title_bytes == encode_string(Get(packet, "title", ""))
        host_name_bytes == encode_string(Get(packet, "host_name", ""))
    IN write_int32(Get(packet, "process_flow_type", 0))
       \o write_int32(Len(title_bytes))
       \o write_int32(Len(host_name_bytes))
       \o write_int32(Get(packet, "process_id", 0))
       \o write_int32(Get(packet, "thread_id", 0))
       \o write_double(packet["timestamp"])
       \o title_bytes \o host_name_bytes

\* a field given or left out of the packet dict
Given(name, values) == {name :> v : v \in values}
Optional(name, values) == {<<>>} \cup Given(name, values)

\* a datetime, as the bits of its OLE date
Timestamps == {[lo |-> 0, hi |-> 1088801024], [lo |-> -1, hi |-> -1]}

\* the packets compiled: those of the tests, and variations of them
LogEntryPackets ==
    { ("packet_type" :> 4) @@ ("session_name" :> "Main") @@ ("host_name" :> "Host")
      @@ ("thread_id" :> 2) @@ ("timestamp" :> [lo |-> 0, hi |-> 1088801024])
      @@ type @@ app @@ title @@ data @@ pid @@ v3 :
        type \in Given("log_entry_type", {107, 100}),
        app \in Given("app_name", {"App", ""}),
        title \in Given("title", {"Hello", "ok"}),
        data \in Optional("data", {<<97, 98, 99>>}),
        pid \in Given("process_id", {1, -2}),
        v3 \in { <<>>,
                 ("correlation_id" :> "trace-1") @@ ("operation_name" :> "SpanA")
                 @@ ("ctx" :> ("requestId" :> "req-2"))
                 @@ ("operation_depth" :> 3) } }

WatchPackets ==
    { ("packet_type" :> 5) @@ name @@ value @@ type @@ ts @@ group @@ labels :
        name \in Given("name", {"cpu", "x"}),
        value \in Given("value", {"42", ""}),
        type \in Given("watch_type", {2, 1}),
        ts \in Given("timestamp", Timestamps),
        group \in Optional("group", {"Perf"}),
        labels \in Optional("labels", {"instance" :> "A"}) }

ProcessFlowPackets ==
    { ("packet_type" :> 6) @@ ("thread_id" :> 1) @@ type @@ title @@ host @@ pid
      @@ ts @@ corr :
        type \in Given("process_flow_type", {0, 1}),
        title \in Given("title", {"DoWork", ""}),
        host \in Given("host_name", {"Host"}),
        pid \in Given("process_id", {1, 70000}),
        ts \in Given("timestamp", Timestamps),
        corr \in Optional("correlation_id", {"trace-2"}) }

FormatCalls ==
    {[fn |-> "compile_log_entry", packet |-> p] : p \in LogEntryPackets}
    \cup {[fn |-> "compile_watch", packet |-> p] : p \in WatchPackets}
    \cup {[fn |-> "compile_process_flow", packet |-> p] : p \in ProcessFlowPackets}

\* data = formatter.compile_log_entry(payload)
CompileLogEntry ==
    /\ arg.fn = "compile_log_entry"
    /\ ret = NoCall
    /\ ret' = [fn |-> arg.fn, data |-> compile_log_entry(arg.packet)]
    /\ UNCHANGED <<qvars, cfg, connected, failed, socket, connect_in_progress,
                   last_reconnect_time, lock, now, pc, pkt, cur, flush, wire,
                   cb, written, nspawn, napp, lim, arg, hist>>

\* watch_data = formatter.compile_watch(watch_payload)
CompileWatch ==
    /\ arg.fn = "compile_watch"
    /\ ret = NoCall
    /\ ret' = [fn |-> arg.fn, data |-> compile_watch(arg.packet)]
    /\ UNCHANGED <<qvars, cfg, connected, failed, socket, connect_in_progress,
                   last_reconnect_time, lock, now, pc, pkt, cur, flush, wire,
                   cb, written, nspawn, napp, lim, arg, hist>>

\* pf_data = formatter.compile_process_flow(pf_payload)
CompileProcessFlow ==
    /\ arg.fn = "compile_process_flow"
    /\ ret = NoCall
    /\ ret' = [fn |-> arg.fn, data |-> compile_process_flow(arg.packet)]
    /\ UNCHANGED <<qvars, cfg, connected, failed, socket, connect_in_progress,
                   last_reconnect_time, lock, now, pc, pkt, cur, flush, wire,
                   cb, written, nspawn, napp, lim, arg, hist>>

InitFormat ==
    /\ queue = TcpProtocol_queue
    /\ pushed = <<>>
    /\ out = <<>>
    /\ last = NoOp
    /\ drop_log = <<>>
    /\ TcpProtocol_init([reconnect |-> TRUE, backlog_enabled |-> TRUE,
                         keep_open |-> TRUE])
    /\ lim = NoLimits
    /\ arg \in FormatCalls
    /\ ret = NoCall
    /\ hist = NoHistory

NextFormat ==
    \/ CompileLogEntry
    \/ CompileWatch
    \/ CompileProcessFlow

SpecFormat == InitFormat /\ [][NextFormat]_vars

-----------------------------------------------------------------------------
(* Properties of PacketQueue (SpecQ) *)

RECURSIVE SumSizes(_)
SumSizes(s) ==
    IF s = <<>> THEN 0
    ELSE get_packet_size(Head(s)) + OVERHEAD + SumSizes(Tail(s))

Increasing(s) == \A i \in 1..Len(s) : \A j \in 1..Len(s) : i < j => s[i] < s[j]

IsSuffix(s, t) ==
    /\ Len(s) <= Len(t)
    /\ s = SubSeq(t, Len(t) - Len(s) + 1, Len(t))

\* the packets pushed and not taken by pop/get_all/clear, in push order
NotPopped ==
    LET gone == {out[i].id : i \in 1..Len(out)} IN
    SelectSeq(pushed, LAMBDA p : p.id \notin gone)

\* C1: between operations, the tracked byte size equals the sum over the
\* queued entries of (estimated packet size + 24), and is 0 when the queue
\* is empty.
C1_SizeIsSumOfEntries ==
    /\ queue.size = SumSizes(queue.items)
    /\ (queue.items = <<>> => queue.size = 0)

\* entries were evicted, one was popped, and two or more are still queued
C1_Witness ==
    /\ Len(queue.items) >= 2
    /\ Len(out) >= 1
    /\ drop_log # <<>>

\* C2 as stated: the tracked byte size never exceeds the configured limit.
C2_SizeWithinBacklog == queue.size <= queue.backlog

\* C2 amended: with a limit that is not negative the tracked byte size never
\* exceeds the limit; with a negative limit the queue is left empty with
\* size 0 (which is above that limit).
C2_SizeWithinNonNegativeBacklog ==
    /\ (queue.backlog >= 0 => queue.size <= queue.backlog)
    /\ (queue.backlog < 0 => queue.size = 0 /\ queue.items = <<>>)

\* a push of a packet that alone exceeds a non-negative limit, onto a queue
\* that held entries, has left the queue empty
C2_Witness ==
    /\ last.op = "push"
    /\ Len(pushed) >= 2
    /\ queue.backlog >= 0
    /\ get_packet_size(pushed[Len(pushed)]) + OVERHEAD > queue.backlog
    /\ queue.items = <<>>
    /\ queue.size = 0
    /\ drop_log # <<>>
    /\ drop_log[Len(drop_log)] >= 2

\* C3: eviction is oldest first: the queued entries are a contiguous suffix,
\* in push order, of the packets pushed and not popped.
C3_EvictionOldestFirst == IsSuffix(queue.items, NotPopped)

\* a push has evicted older entries and kept two or more newer ones
C3_Witness ==
    /\ last.op = "push"
    /\ Len(queue.items) >= 2
    /\ Len(queue.items) < Len(NotPopped)

\* C4: with a drop callback installed, a push that evicts k >= 1 entries
\* calls on_packet_dropped exactly once, with k; a push that evicts nothing
\* does not call it; the reported counts add up to the number of entries
\* ever evicted.
C4_DropCallbackOncePerPush ==
    /\ [](queue.on_packet_dropped =>
            SumSeq(drop_log) = Len(pushed) - Len(out) - Len(queue.items))
    /\ [][(queue.on_packet_dropped /\ Len(pushed') = Len(pushed) + 1) =>
            LET k == Len(queue.items) + 1 - Len(queue'.items) IN
            drop_log' = IF k >= 1 THEN Append(drop_log, k) ELSE drop_log]_vars

\* a push has evicted two or more entries in one go, after an earlier report
C4_Witness ==
    /\ queue.on_packet_dropped
    /\ last.op = "push"
    /\ queue.items = <<>>
    /\ Len(drop_log) >= 2
    /\ drop_log[Len(drop_log)] >= 2

\* C5: the queue is strictly FIFO: what pop and get_all return comes out in
\* push order; pop on an empty queue returns None and changes nothing; pop
\* otherwise returns the oldest entry and removes only it; get_all returns
\* every queued packet in push order and leaves count 0 and size 0.
C5_StrictFifo ==
    /\ [] Increasing(Ids(out \o queue.items))
    /\ [][(last'.op = "pop") =>
            IF queue.items = <<>>
            THEN last'.ret = None /\ queue' = queue /\ out' = out
            ELSE /\ last'.ret = Head(queue.items)
                 /\ queue'.items = Tail(queue.items)
                 /\ queue'.count = queue.count - 1]_vars
    /\ [][(last'.op = "get_all") =>
            /\ last'.list = queue.items
            /\ queue'.items = <<>>
            /\ queue'.count = 0
            /\ queue'.size = 0]_vars

\* get_all has returned two or more packets after earlier pops
C5_Witness ==
    /\ last.op = "get_all"
    /\ Len(last.list) >= 2
    /\ Len(out) > Len(last.list)

-----------------------------------------------------------------------------
(* Properties of TcpProtocol (Spec) *)

\* the on_error calls, among calls, that report a failed send
SendErrors(calls) ==
    SelectSeq(calls, LAMBDA e : e.name = "on_error" /\ e.kind = "send")

\* whether packet alone is within the byte limit of q
Fits(q, packet) == get_packet_size(packet) + OVERHEAD <= q.backlog

\* items is what a queue holding old keeps after added were appended to it:
\* a suffix of old followed by added, the last of added included if it fits
RequeuedAtTail(q, old, added, items) ==
    /\ IsSuffix(items, old \o added)
    /\ Fits(q, added[Len(added)]) =>
            /\ items # <<>>
            /\ items[Len(items)] = added[Len(added)]

\* C6: a failed send in write_packet (socket missing, write error, ack
\* timeout, short acknowledgement) makes the calling thread clear _connected
\* and release the socket, then push that packet at the tail of the backlog
\* if backlog is enabled (and leave the backlog alone if not), call on_error
\* once for this failure, and return without sending again.
C6_FailedSendTearsDownAndRequeues ==
    [][\A p \in Producers :
        /\ (pc[p] = "w_send" /\ pc'[p] # "w_send" /\ socket = 0) =>
                pc'[p] = "w_reset"
        /\ (pc[p] = "w_send" /\ pc'[p] = "w_reset") =>
                /\ wire' = wire
                /\ pkt'[p] = pkt[p]
        /\ (pc[p] = "w_reset" /\ pc'[p] # "w_reset") =>
                /\ pc'[p] = "w_failed"
                /\ connected' = FALSE
                /\ socket' = 0
                /\ SendErrors(cb') = <<>>
                /\ wire' = wire
                /\ queue' = queue
                /\ pkt'[p] = pkt[p]
        /\ (pc[p] = "w_failed" /\ pc'[p] # "w_failed") =>
                /\ pc'[p] = "idle"
                /\ IF cfg.backlog_enabled
                   THEN RequeuedAtTail(queue, queue.items, <<pkt[p]>>, queue'.items)
                   ELSE queue' = queue
                /\ SendErrors(cb') = <<on_error("send", pkt[p].id)>>
                /\ wire' = wire
                /\ connected' = connected
                /\ socket' = socket
                /\ nspawn' = nspawn]_vars

\* a producer has just returned from a failed send on an established
\* connection: the connection is down, its packet is the newest of the
\* backlog, and the last callback is on_error for that packet
C6_Witness ==
    \E p \in Producers :
        /\ cfg.backlog_enabled
        /\ pc[p] = "idle"
        /\ \E c \in Connectors : pc[c] = "done"
        /\ \A c \in Connectors : pc[c] \in {"unborn", "done"}
        /\ ~connected
        /\ socket = 0
        /\ wire # <<>>
        /\ queue.items # <<>>
        /\ cb # <<>>
        /\ cb[Len(cb)] = on_error("send", queue.items[Len(queue.items)].id)
        /\ queue.items[Len(queue.items)].id % NProducers = p % NProducers

\* the packet ids acknowledged to thread t, the LogHeader aside, in the
\* order of their acknowledgements
AckedTo(t) == Ids(SelectSeq(wire, LAMBDA w : w.by = t /\ w.id # LogHeaderId))

\* thread c is in _flush_queue with a list to send, or has left it
InFlush(c) == flush[c].idx >= 1

\* every packet of the list of c was sent and acknowledged
FlushComplete(c) == InFlush(c) /\ flush[c].idx = Len(flush[c].packets) + 1

\* C7: _flush_queue runs only after the connect and its LogHeader succeeded;
\* it takes the whole backlog in queue order and leaves it empty; the
\* packets acknowledged to it are, one cycle each and in that order, the
\* first idx - 1 of the list; and once every send has succeeded none of the
\* list is in the backlog.
C7_FlushInFifoOrder ==
    /\ [](\A c \in Connectors : InFlush(c) =>
            /\ AckedTo(c) = Ids(SubSeq(flush[c].packets, 1, flush[c].idx - 1))
            /\ \E i \in 1..Len(wire) :
                    wire[i] = [sock |-> c, by |-> c, id |-> LogHeaderId])
    /\ [](\A c \in Connectors : FlushComplete(c) =>
            \A i \in 1..Len(flush[c].packets) : \A j \in 1..Len(queue.items) :
                flush[c].packets[i].id # queue.items[j].id)
    /\ [][\A c \in Connectors : (pc[c] = "c_flush" /\ pc'[c] # "c_flush") =>
            /\ flush'[c].packets = queue.items
            /\ queue'.items = <<>>
            /\ queue'.count = 0
            /\ queue'.size = 0
            /\ wire' = wire]_vars

\* a background thread has flushed a backlog of three packets, all
\* acknowledged, and the backlog is empty
C7_Witness ==
    \E c \in Connectors :
        /\ FlushComplete(c)
        /\ Len(flush[c].packets) >= 3
        /\ Len(AckedTo(c)) >= 3
        /\ pc[c] = "done"
        /\ queue.items = <<>>

\* C8 as stated: when the send at position idx of the drained list has
\* failed, the backlog gets exactly the failed entry followed by the entries
\* after it, in their order (the oldest giving way if the byte limit is
\* reached), and none of the entries before idx, which were acknowledged;
\* then the connection is torn down and the thread sends nothing more.
C8_RequeueFailedAndRemaining ==
    [][\A c \in Connectors :
        /\ (pc[c] = "f_requeue" /\ pc'[c] # "f_requeue") =>
                LET f == flush[c]
                    remaining == SubSeq(f.packets, f.idx, Len(f.packets))
                IN /\ pc'[c] = "f_reset"
                   /\ RequeuedAtTail(queue, queue.items, remaining, queue'.items)
                   /\ \A i \in 1..(f.idx - 1) : \A j \in 1..Len(queue'.items) :
                          f.packets[i].id # queue'.items[j].id
        /\ (pc[c] = "f_reset" /\ pc'[c] # "f_reset") =>
                /\ pc'[c] = "c_finally"
                /\ connected' = FALSE
                /\ socket' = 0
                /\ wire' = wire]_vars

\* producer p makes a write_packet call in this step
Calls(p) == written'[p] = written[p] + 1

Queueing(p) == pc[p] \in {"w_push", "w_try", "w_spawn"}

\* _try_reconnect passes its two checks
ReconnectDue ==
    /\ cfg.reconnect
    /\ ~connect_in_progress
    /\ now - last_reconnect_time >= reconnect_interval

\* C10: a write_packet call made while _connected is false, with reconnect
\* and backlog enabled, pushes the packet at the tail of the backlog and,
\* with keep_open, goes through _try_reconnect, which starts a background
\* thread only if none is known to run and the interval has passed.  The
\* calling thread never holds or waits for the connection lock and touches
\* neither socket nor wire: each of its steps can be taken whoever holds
\* the lock (only the limit on threads of a run holds a step back).
C10_QueueingWriteNeverBlocks ==
    /\ [](\A p \in Producers : Queueing(p) =>
            /\ lock # p
            /\ \/ pc[p] = "w_try" /\ ReconnectDue /\ ~CanSpawn
               \/ ENABLED Producer(p))
    /\ [][\A p \in Producers :
            /\ (Calls(p) /\ ~connected /\ cfg.reconnect /\ cfg.backlog_enabled) =>
                    /\ pc'[p] = "w_push"
                    /\ pkt'[p].id = NextId(p)
            /\ (pc[p] = "w_push" /\ pc'[p] # "w_push") =>
                    /\ RequeuedAtTail(queue, queue.items, <<pkt[p]>>, queue'.items)
                    /\ pc'[p] = IF cfg.keep_open THEN "w_try" ELSE "idle"
                    /\ nspawn' = nspawn
            /\ (pc[p] = "w_try" /\ pc'[p] # "w_try") =>
                    /\ pc'[p] = IF ReconnectDue THEN "w_spawn" ELSE "idle"
                    /\ nspawn' = nspawn
                    /\ queue' = queue
            /\ (pc[p] = "w_spawn" /\ pc'[p] # "w_spawn") =>
                    /\ pc'[p] = "idle"
                    /\ nspawn' = nspawn + 1
                    /\ pc'[NProducers + nspawn'] = "c_connect"
                    /\ last_reconnect_time' = cur[p]
                    /\ queue' = queue
            /\ (Queueing(p) /\ pc'[p] # pc[p]) =>
                    /\ lock' = lock
                    /\ socket' = socket
                    /\ wire' = wire
                    /\ connected' = connected]_vars

\* a producer has pushed its packet and is in _try_reconnect while a
\* background thread holds the connection lock, waiting for the
\* acknowledgement of its LogHeader
C10_Witness ==
    \E p \in Producers : \E c \in Connectors :
        /\ cfg.keep_open
        /\ pc[p] = "w_try"
        /\ lock = c
        /\ pc[c] = "c_header"
        /\ queue.items # <<>>
        /\ queue.items[Len(queue.items)].id = NextId(p) - NProducers

-----------------------------------------------------------------------------
(* Properties of TcpProtocol over time (SpecReconnect) *)

\* C11 as stated: a reconnect request of write_packet made less than
\* reconnect_interval after the request that started the last attempt
\* starts no thread: whenever _try_reconnect starts a thread, the time it
\* read is at least one interval after the time of the last started attempt.
C11_OneAttemptPerInterval ==
    [][\A p \in Producers : (pc[p] = "w_spawn" /\ pc'[p] # "w_spawn") =>
            cur[p] - last_reconnect_time >= reconnect_interval]_vars

\* the background threads that were started and have not ended
Running == {c \in Connectors : pc[c] \notin {"unborn", "done"}}

\* C20 as stated: at most one background connect thread runs at any time,
\* and _connect_in_progress is true exactly while one runs.
C20_AtMostOneConnectTask ==
    /\ Cardinality(Running) <= 1
    /\ connect_in_progress <=> Running # {}

-----------------------------------------------------------------------------
(* More properties of TcpProtocol (Spec) *)

\* C12 as stated: on every connection the LogHeader comes first: a packet of
\* write_packet is acknowledged on a socket only after the LogHeader of that
\* socket was written and acknowledged.
C12_LogHeaderFirst ==
    \A i \in 1..Len(wire) : wire[i].id # LogHeaderId =>
        \E j \in 1..(i - 1) :
            /\ wire[j].id = LogHeaderId
            /\ wire[j].sock = wire[i].sock

\* the places of write_packet a producer can be at; each is left by a step
\* of write_packet that raises nothing to the caller
ProducerLabels ==
    {"idle", "w_push", "w_try", "w_spawn", "w_lock", "w_send", "w_reset", "w_failed"}

\* C14: no failure of the network is raised to the caller of write_packet:
\* a producer is always inside write_packet or back from it; a failed
\* connect or handshake takes the background thread to its except branch,
\* which sets _failed and calls on_error; a failed send takes the producer
\* through its except branch, which calls on_error before the call returns.
C14_FailuresReportedNotRaised ==
    /\ [](\A p \in Producers : pc[p] \in ProducerLabels)
    /\ [][\A p \in Producers :
            /\ (pc[p] = "w_send" /\ pc'[p] # "w_send") =>
                    pc'[p] = IF Len(wire') > Len(wire) THEN "idle" ELSE "w_reset"
            /\ (pc[p] = "w_failed" /\ pc'[p] # "w_failed") =>
                    /\ pc'[p] = "idle"
                    /\ cb'[Len(cb')] = on_error("send", pkt[p].id)]_vars
    /\ [][\A c \in Connectors :
            /\ (pc[c] = "c_connect" /\ pc'[c] # "c_connect" /\ ~connected') =>
                    pc'[c] = "c_failed"
            /\ (pc[c] = "c_header" /\ pc'[c] # "c_header" /\ wire' = wire) =>
                    pc'[c] = "c_failed"
            /\ (pc[c] = "c_failed" /\ pc'[c] # "c_failed") =>
                    /\ failed'
                    /\ cb' = <<on_error("connect", 0)>>
                    /\ pc'[c] = "c_finally"]_vars

\* the console was unreachable: the only connect attempt has just failed
\* and was reported, every write_packet call of the run has returned, and
\* their packets wait in the backlog
C14_Witness ==
    /\ \E c \in Connectors : pc[c] = "c_finally"
    /\ cb = <<on_error("connect", 0)>>
    /\ failed
    /\ socket = 0
    /\ wire = <<>>
    /\ Written = lim.writes
    /\ \A p \in Producers : pc[p] = "idle"
    /\ Len(queue.items) >= 2

-----------------------------------------------------------------------------
(* Properties of disconnect() (SpecDisconnect) *)

\* C13 as stated: a disconnect() call always returns, also when another
\* thread waits for an acknowledgement that never comes; it clears the
\* backlog, and when it returns the socket is closed and _connected false.
C13_DisconnectTerminates ==
    /\ (pc[App] = "d_lock") ~> (pc[App] = "idle")
    /\ [][(pc[App] = "d_lock" /\ pc'[App] # "d_lock") => queue'.items = <<>>]_vars
    /\ [][(pc[App] = "d_reset" /\ pc'[App] # "d_reset") =>
            /\ pc'[App] = "idle"
            /\ socket' = 0
            /\ ~connected']_vars

-----------------------------------------------------------------------------
(* Properties of the configuration calls (SpecConfig) *)

\* C15 as stated: a TcpProtocol made with async_enabled given sends a packet
\* of write_packet, once connected, on the calling thread exactly if
\* async_enabled is false, and hands it to a worker if it is true.
C15_AsyncDecidesInlineSend ==
    (ret.fn = "TcpProtocol" /\ "async_enabled" \in DOMAIN arg.kwargs) =>
        /\ ret.raised = "none"
        /\ ret.route = "send" <=> ~arg.kwargs["async_enabled"]

\* a value written as a decimal number
Numeric(value) ==
    /\ value # ""
    /\ \A i \in 1..Len(value) : find(Digits \o ".", Char(value, i)) # -1

\* the string of a call has the form tcp(key=value,...), and the values of
\* its port and timeout are numbers
WellFormed(call) ==
    /\ lower(call.frame.open) = "tcp("
    /\ call.frame.close = ")"
    /\ call.items # <<>>
    /\ \A i \in 1..Len(call.items) :
          /\ call.items[i].key # ""
          /\ call.items[i].key \in {"port", "timeout"} =>
                Numeric(call.items[i].value)

Returned == ret.fn \in {"parse_connection_string", "connect"}

\* C16 as stated: a call of parse_connection_string or connect with a string
\* that is not of the form tcp(key=value,...), or whose port or timeout is
\* not a number, ends with an error raised by the parsing of the string.
C16_MalformedStringIsAnError ==
    (Returned /\ ~WellFormed(arg)) =>
        /\ ret.raised # "none"
        /\ ret.stage = "parse"

\* parse_connection_string has returned the options of a string tcp(...)
Parsed ==
    /\ ret.fn = "parse_connection_string"
    /\ ret.raised = "none"
    /\ lower(arg.frame.open) = "tcp("
    /\ arg.frame.close = ")"

ExampleOptions ==
    ("host" :> "127.0.0.1") @@ ("port" :> 4229) @@ ("room" :> "X")
    @@ ("async_enabled" :> TRUE)

\* the option of each key that sets one option
OwnOption ==
    ("host" :> "host") @@ ("port" :> "port") @@ ("timeout" :> "timeout")
    @@ ("room" :> "room") @@ ("reconnect" :> "reconnect")
    @@ ("reconnect.interval" :> "reconnect_interval")
    @@ ("backlog.enabled" :> "backlog_enabled")
    @@ ("backlog.queue" :> "backlog_queue")
    @@ ("backlog.keepopen" :> "backlog_keep_open")
    @@ ("backlog.flushon" :> "backlog_flush_on")
    @@ ("flushon" :> "backlog_flush_on")
    @@ ("keepopen" :> "backlog_keep_open")
    @@ ("async.enabled" :> "async_enabled")
    @@ ("async.queue" :> "async_queue")
    @@ ("async.throttle" :> "async_throttle")
    @@ ("async.clearondisconnect" :> "async_clear_on_disconnect")

Recognised == DOMAIN OwnOption \cup {"backlog"}

OptionsSetBy(item) ==
    IF item.key = "backlog"
    THEN IF parse_size_kb(item.value).value > 0
         THEN {"backlog_enabled", "backlog_queue"}
         ELSE {"backlog_enabled"}
    ELSE IF item.key \in DOMAIN OwnOption THEN {OwnOption[item.key]}
    ELSE {}

\* C17 as stated: the example string is parsed to exactly its four options,
\* a string of one pair with a recognised key is parsed to exactly one
\* option, and one with an unrecognised key to none.
C17_EachPairSetsOneOption ==
    Parsed =>
        /\ arg.items = ExampleItems => ret.options = ExampleOptions
        /\ Len(arg.items) = 1 =>
              IF arg.items[1].key \in Recognised
              THEN Cardinality(DOMAIN ret.options) = 1
              ELSE ret.options = NoOptions

\* C17, amended: the example string is parsed to exactly its four options;
\* the options of a parsed string are those of its pairs, where a recognised
\* key other than backlog sets one option (flushon and keepopen being other
\* names of backlog.flushon and backlog.keepopen), backlog=N sets
\* backlog_enabled and, for N > 0, backlog_queue, and any other pair sets
\* none; host and room are set to the value as written.
C17_PairsSetTheirOptions ==
    Parsed =>
        /\ arg.items = ExampleItems => ret.options = ExampleOptions
        /\ DOMAIN ret.options =
              UNION {OptionsSetBy(arg.items[i]) : i \in 1..Len(arg.items)}
        /\ \A k \in {"host", "room"} :
              (Len(arg.items) = 1 /\ arg.items[1].key = k) =>
                  ret.options[k] = arg.items[1].value

C17_Witness ==
    /\ Parsed
    /\ arg.items = ExampleItems
    /\ arg.frame.open = "tcp("
    /\ ret.options = ExampleOptions

-----------------------------------------------------------------------------
(* Properties of BinaryFormatter (SpecFormat) *)

\* struct.unpack_from("<i", data, offset)[0]: the signed 32-bit integer in
\* the four bytes after the first `offset` bytes
CanRead(data, offset) == Len(data) >= offset + 4

Int32At(data, offset) ==
    LET b0 == data[offset + 1]
        b1 == data[offset + 2]
        b2 == data[offset + 3]
        b3 == data[offset + 4]
        low == b0 + 256 * b1 + 65536 * b2 + 16777216 * (b3 % 128)
    IN IF b3 >= 128 THEN low - 2147483647 - 1 ELSE low

Compiled(fn) == ret.fn = fn /\ arg.fn = fn

\* the length of the data payload of the packet compiled
DataLen == IF "data" \in DOMAIN arg.packet THEN Len(arg.packet["data"]) ELSE 0

\* the LogEntry compiled has app_name "App", title "Hello", three bytes of
\* data and every string field populated
Populated ==
    /\ arg.packet["app_name"] = "App"
    /\ arg.packet["title"] = "Hello"
    /\ arg.packet["session_name"] # ""
    /\ arg.packet["host_name"] # ""
    /\ DataLen = 3

Has(name) == name \in DOMAIN arg.packet /\ arg.packet[name] # <<>>

\* C19 as stated: in the body compiled from a LogEntry that has them, the
\* int32 at offset 24 is the length of correlation_id, the one at 28 that of
\* operation_name, the one at 32 is positive when ctx is not empty, and the
\* one at 60 is operation_depth; in the body of a ProcessFlow the int32 at
\* offset 12 is the length of correlation_id; in the body of a Watch with
\* labels the int32 at offset 24 is the length of a part of the body, the
\* labels, that follows the header and the fields before it.
C19_V3HeaderFields ==
    /\ (Compiled("compile_log_entry") /\ Has("correlation_id")) =>
          /\ CanRead(ret.data, 60)
          /\ Int32At(ret.data, 24) = Len(arg.packet["correlation_id"])
          /\ Int32At(ret.data, 28) = Len(arg.packet["operation_name"])
          /\ Has("ctx") => Int32At(ret.data, 32) > 0
          /\ Int32At(ret.data, 60) = arg.packet["operation_depth"]
    /\ (Compiled("compile_process_flow") /\ Has("correlation_id")) =>
          /\ CanRead(ret.data, 12)
          /\ Int32At(ret.data, 12) = Len(arg.packet["correlation_id"])
    /\ (Compiled("compile_watch") /\ Has("labels")) =>
          /\ CanRead(ret.data, 24)
          /\ Int32At(ret.data, 24) > 0
          /\ Len(ret.data) >= 28 + Int32At(ret.data, 24)

-----------------------------------------------------------------------------
(* Properties of the connection state (Spec) *)

\* C21 as stated: whatever fails in a connect or its handshake, the attempt
\* leaves the protocol not connected: _connected and _failed are never both
\* true, and a background thread that has finished through its except
\* branch leaves _connected false.
C21_FailedAttemptLeavesDisconnected ==
    /\ ~(connected /\ failed)
    /\ \A c \in Connectors : (pc[c] \in {"c_finally", "done"} /\ failed) => ~connected

\* C24 as stated: in every reachable state, _connected being true implies
\* that _socket is not None.
C24_ConnectedHasSocket == connected => socket # 0

-----------------------------------------------------------------------------
(* Properties of the two locks (Spec) *)

\* thread t takes a step of its code
Steps(t) == pc'[t] # pc[t]

\* thread t is inside `with self._lock` of the protocol during its step: it
\* holds the lock before or after it, or the step is _internal_connect,
\* which takes and releases it
InLock(t) == lock = t \/ lock' = t \/ pc[t] = "c_connect"

\* C22 as stated: no thread holds the mutex of the backlog queue and the
\* lock of the connection at the same time: a step in which a thread changes
\* the queue, which it does inside the queue's mutex, is not a step of a
\* thread inside the connection lock.
C22_LocksNeverNested ==
    [][\A t \in Threads : (Steps(t) /\ queue' # queue) => ~InLock(t)]_vars

\* C23 as stated: every change of _connected, _failed or _socket is made by
\* a thread that is inside the connection lock.
C23_StateChangesUnderLock ==
    [][(connected' # connected \/ failed' # failed \/ socket' # socket) =>
            \E t \in Threads : Steps(t) /\ InLock(t)]_vars

\* the step calls a callback from which write_packet cannot return: the
\* thread calls it inside the connection lock while _connected is true, so
\* that write_packet goes on to take that lock, or it is the overflow
\* callback, called by push inside the mutex of the queue, while write_packet
\* would push
CallbackCannotWrite(call) ==
    \/ /\ \E t \in Threads : Steps(t) /\ lock = t
       /\ connected'
    \/ /\ call.name = "on_error" /\ call.kind = "overflow"
       /\ write_packet_route(connected', cfg) = "queue"

\* C30 as stated: no callback is called while the calling thread holds the
\* lock that a write_packet made by the callback would take.
C30_CallbacksCanWrite ==
    [][\A i \in 1..Len(cb') : ~CallbackCannotWrite(cb'[i])]_vars

-----------------------------------------------------------------------------
(* Properties of the backlog of a connected protocol (Spec) *)

\* no background thread is running: none is connecting, will flush or is
\* flushing
NoFlush_in_progress == \A c \in Connectors : pc[c] \in {"unborn", "done"}

\* C25 as stated: whenever the connection is healthy (connected, with its
\* socket, the last attempt not failed) and no background connect or flush
\* is in progress, the backlog is empty.
C25_NoPacketStranded ==
    (connected /\ socket # 0 /\ ~failed /\ NoFlush_in_progress) => queue.items = <<>>

\* the ids of the packets of producer p among the acknowledged sends, in the
\* order they were sent
SentOf(p) ==
    Ids(SelectSeq(wire, LAMBDA w : w.id # LogHeaderId /\ w.id % NProducers = p % NProducers))

\* C26 as stated: the packets of one producer reach the socket in the order
\* of its write_packet calls, which is the order of their ids: none is sent
\* before a packet of the same producer that was written earlier.
C26_ProducerOrderOnTheWire ==
    \A p \in Producers : \A i, j \in 1..Len(SentOf(p)) :
        i < j => SentOf(p)[i] <= SentOf(p)[j]

-----------------------------------------------------------------------------
(* Properties of the packets accepted (Spec) *)

\* the ids of the packets the write_packet calls made so far were given
Accepted ==
    UNION {{k * NProducers + p : k \in 0..(written[p] - 1)} : p \in Producers}

\* the ids of the packets a thread holds: the argument of a write_packet
\* call that has not returned, the packets of a _flush_queue list from the
\* one being sent on, while its loop runs
HeldBySend == {pkt[p].id : p \in {q \in Producers : pkt[q] # None}}
HeldByFlush ==
    UNION {{flush[c].packets[i].id : i \in flush[c].idx..Len(flush[c].packets)} :
              c \in {d \in Connectors : pc[d] \in {"f_lock", "f_send", "f_requeue"}}}

\* where a packet can be without being lost silently
Acknowledged == {wire[i].id : i \in DOMAIN wire}
InBacklog == {queue.items[i].id : i \in DOMAIN queue.items}
AccountedFor ==
    Acknowledged \cup InBacklog \cup HeldBySend \cup HeldByFlush
        \cup hist.evicted \cup hist.cleared

\* C27: with reconnect and backlog enabled, every packet given to
\* write_packet is, in every state, acknowledged by the peer, in the backlog,
\* held by a send or a flush in progress, among the packets of a reported
\* eviction, or among those removed by a disconnect().
C27_NoSilentLoss ==
    (cfg.reconnect /\ cfg.backlog_enabled) => Accepted \subseteq AccountedFor

\* reconnect and backlog enabled; a send has failed and a flush has run; of
\* the packets given one was evicted and is nowhere else, one was
\* acknowledged to a background thread, and one is in the backlog
C27_Witness ==
    /\ cfg.reconnect /\ cfg.backlog_enabled
    /\ Cardinality(Accepted) = MaxWrites
    /\ \E id \in Accepted : id \in hist.evicted /\ id \notin (Acknowledged \cup InBacklog)
    /\ \E i \in DOMAIN wire : wire[i].by \in Connectors /\ wire[i].id \in Accepted
    /\ Accepted \cap InBacklog # {}
    /\ \A t \in Threads : pc[t] \in {"idle", "unborn", "done"}

-----------------------------------------------------------------------------
(* Properties of disconnect() (Spec) *)

\* C29 as stated: from the return of a disconnect() made while no
\* write_packet call was running, and until connect() or write_packet() is
\* called, the protocol is not connected, has no socket and its backlog is
\* empty, whatever a background thread already running does.
C29_StaysDisconnected ==
    hist.settled = "yes" => (~connected /\ socket = 0 /\ queue.items = <<>>)

-----------------------------------------------------------------------------
(* Properties of reconnecting (SpecReconnectFair) *)

\* the protocol has lost a connection it had, no thread is connecting, n
\* background threads were started so far, the reconnect interval has
\* elapsed, no write_packet call is running and one is still to come
LostConnection(n) ==
    /\ ~connected /\ socket = 0
    /\ wire # <<>>
    /\ Running = {}
    /\ ReconnectDue
    /\ nspawn = n
    /\ \A p \in Producers : pc[p] = "idle"
    /\ Written < lim.writes

\* C28 as stated: with reconnect enabled, whatever the backlog settings, a
\* protocol that has lost its connection starts a new background connect
\* when producers call write_packet again after the interval has elapsed.
C28_ReconnectsForEveryBacklogSetting ==
    \A n \in 0..(MaxSpawnR - 1) : LostConnection(n) ~> (nspawn > n)

====
